---------------------------- MODULE Spec2Model ----------------------------
(***************************************************************************)
(* A model of SimpleVector<Type> (src/simple-vector/simple_vector.h) and   *)
(* of the ArrayPtr<Type> it is built on.                                   *)
(*                                                                         *)
(* Memory is a heap of blocks: heap[b] is the sequence of the slots of the *)
(* block at address b, and << >> when no block is allocated there.  An     *)
(* iterator is an address and an offset, [ptr, idx].  A container is the   *)
(* record of its members [items_, size_, capacity_], items_ being the      *)
(* address its ArrayPtr holds (Null for nullptr).  C++ offsets are         *)
(* 0-based, TLA+ sequences 1-based: slot k of a block is heap[b][k + 1].   *)
(*                                                                         *)
(* Every member function is an operator from the container, the heap and   *)
(* the arguments to a result: the container and the heap afterwards, the   *)
(* exception thrown (err), and the iterator (it) or the element (out)      *)
(* returned.  The actions apply these operators to the containers of the   *)
(* state and record the call.                                              *)
(***************************************************************************)
EXTENDS Integers, Sequences, FiniteSets, TLC

VARIABLES
    vec,    \* vec[i]: the members of container i
    heap,   \* heap[b]: the slots of the block at address b
    call,   \* the last call: name, arguments, results, the counters before it
    shift   \* the std::move_backward or std::move an Insert or Erase is in

vars == <<vec, heap, call, shift>>

---------------------------------------------------------------------------
(* Bounds of the model *)

\* the largest block the allocator gives, one container
MaxCap == 3
\* the largest block the allocator gives, two containers
MaxCap2 == 2
\* the largest block the allocator gives, growth by PushBack and Insert alone
MaxGrow == 10
\* the element values are DefaultValue .. MaxVal
MaxVal == 1

---------------------------------------------------------------------------
(* Values and addresses *)

\* Type(): the value-initialized element
DefaultValue == 0

\* nullptr
Null == 0

Values == DefaultValue .. MaxVal

\* the containers of the state
Vecs == {1, 2}

\* the addresses of blocks: one per container, and one for the ArrayPtr a
\* call builds while the container still holds its old block
Blocks == 1 .. (Cardinality(Vecs) + 1)

\* no element
NoValue == DefaultValue - 1

\* no iterator
NoIter == [ptr |-> Null, idx |-> NoValue]

---------------------------------------------------------------------------
(* Memory *)

\* the address it is a slot of an allocated block
Valid(h, it) == it.ptr \in Blocks /\ it.idx + 1 \in DOMAIN h[it.ptr]

\* *it
Load(h, it) == IF Valid(h, it) THEN h[it.ptr][it.idx + 1] ELSE NoValue

\* *it = x
Store(h, it, x) ==
    IF Valid(h, it) THEN [h EXCEPT ![it.ptr][it.idx + 1] = x] ELSE h

\* it + n
Plus(it, n) == [it EXCEPT !.idx = @ + n]

\* what an element holding x holds after it was moved from: unchanged (a
\* trivially copyable Type) or value-initialized, as mv says
MovedFrom(x, mv) == IF mv THEN DefaultValue ELSE x

---------------------------------------------------------------------------
(* ArrayPtr<Type> *)

\* ArrayPtr(): owns nothing
ArrayPtrEmpty == Null

\* ArrayPtr(size): the address held (the allocator returning nb)
ArrayPtrNew(size, nb) == IF size = 0 THEN Null ELSE nb

\* ArrayPtr(size): the heap afterwards, size value-initialized slots at nb
ArrayPtrNewHeap(h, size, nb) ==
    IF size = 0 THEN h ELSE [h EXCEPT ![nb] = [k \in 1 .. size |-> DefaultValue]]

\* ~ArrayPtr(): the heap after the ArrayPtr holding p goes out of scope
ArrayPtrDelete(h, p) == IF p = Null THEN h ELSE [h EXCEPT ![p] = << >>]

\* Get()
Get(p) == [ptr |-> p, idx |-> 0]

---------------------------------------------------------------------------
(* <algorithm> and <memory>, slot by slot in the order the library works *)

\* std::copy(first, last, d_first)
RECURSIVE StdCopy(_, _, _, _)
StdCopy(h, first, last, d_first) ==
    IF first.idx >= last.idx
    THEN h
    ELSE StdCopy(Store(h, d_first, Load(h, first)),
                 Plus(first, 1), last, Plus(d_first, 1))

\* std::copy(init.begin() + k, init.end(), d_first) from an initializer list
RECURSIVE StdCopyList(_, _, _, _)
StdCopyList(h, init, k, d_first) ==
    IF k >= Len(init)
    THEN h
    ELSE StdCopyList(Store(h, d_first, init[k + 1]), init, k + 1, Plus(d_first, 1))

\* std::fill(first, last, value)
RECURSIVE StdFill(_, _, _, _)
StdFill(h, first, last, value) ==
    IF first.idx >= last.idx
    THEN h
    ELSE StdFill(Store(h, first, value), Plus(first, 1), last, value)

\* std::uninitialized_value_construct(first, last) that leaves the slots
UninitializedLeft(h, first, last) == h

\* std::uninitialized_value_construct(first, last)
RECURSIVE UninitializedValueConstruct(_, _, _)
UninitializedValueConstruct(h, first, last) ==
    IF first.idx >= last.idx
    THEN h
    ELSE UninitializedValueConstruct(Store(h, first, DefaultValue),
                                     Plus(first, 1), last)

\* std::move(first, last, d_first) that works from the last element on
RECURSIVE StdMoveFromLast(_, _, _, _, _)
StdMoveFromLast(h, first, last, d_first, mv) ==
    IF first.idx >= last.idx
    THEN h
    ELSE LET n == last.idx - first.idx
             x == Load(h, Plus(last, -1))
         IN  StdMoveFromLast(
                 Store(Store(h, Plus(d_first, n - 1), x), Plus(last, -1), MovedFrom(x, mv)),
                 first, Plus(last, -1), d_first, mv)

\* std::move(first, last, d_first): from the first element on
RECURSIVE StdMove(_, _, _, _, _)
StdMove(h, first, last, d_first, mv) ==
    IF first.idx >= last.idx
    THEN h
    ELSE LET x == Load(h, first)
         IN  StdMove(Store(Store(h, d_first, x), first, MovedFrom(x, mv)),
                     Plus(first, 1), last, Plus(d_first, 1), mv)

\* std::move_backward(first, last, d_last) that works from the first element on
RECURSIVE StdMoveFromFirst(_, _, _, _, _)
StdMoveFromFirst(h, first, last, d_last, mv) ==
    IF first.idx >= last.idx
    THEN h
    ELSE LET n == last.idx - first.idx
             x == Load(h, first)
         IN  StdMoveFromFirst(
                 Store(Store(h, Plus(d_last, -n), x), first, MovedFrom(x, mv)),
                 Plus(first, 1), last, d_last, mv)

\* std::move_backward(first, last, d_last): from the last element on
RECURSIVE StdMoveBackward(_, _, _, _, _)
StdMoveBackward(h, first, last, d_last, mv) ==
    IF first.idx >= last.idx
    THEN h
    ELSE LET x == Load(h, Plus(last, -1))
         IN  StdMoveBackward(
                 Store(Store(h, Plus(d_last, -1), x), Plus(last, -1), MovedFrom(x, mv)),
                 first, Plus(last, -1), Plus(d_last, -1), mv)

---------------------------------------------------------------------------
(* Results of a call *)

\* the call returned normally
Ok(v, h) == [vec |-> v, heap |-> h, err |-> "none", it |-> NoIter, out |-> NoValue]

\* the call threw e
Thrown(v, h, e) == [vec |-> v, heap |-> h, err |-> e, it |-> NoIter, out |-> NoValue]

\* the result r of a call that takes a second container, left as o
Both(r, o) ==
    [vec |-> r.vec, other |-> o, heap |-> r.heap, err |-> r.err,
     it |-> r.it, out |-> r.out]

---------------------------------------------------------------------------
(* SimpleVector<Type>: construction *)

\* SimpleVector()
EmptyVector == [items_ |-> ArrayPtrEmpty, size_ |-> 0, capacity_ |-> 0]

\* SimpleVector(size)
ConstructSize(h, size, nb) ==
    LET new_items == ArrayPtrNew(size, nb)
        h1 == ArrayPtrNewHeap(h, size, nb)
        h2 == StdFill(h1, Get(new_items), Plus(Get(new_items), size), DefaultValue)
    IN  Ok([items_ |-> new_items, size_ |-> size, capacity_ |-> size], h2)

\* SimpleVector(size, value)
ConstructFill(h, size, value, nb) ==
    LET new_items == ArrayPtrNew(size, nb)
        h1 == ArrayPtrNewHeap(h, size, nb)
        h2 == StdFill(h1, Get(new_items), Plus(Get(new_items), size), value)
    IN  Ok([items_ |-> new_items, size_ |-> size, capacity_ |-> size], h2)

\* SimpleVector(std::initializer_list<Type> init) that takes the values
\* from the last one on
ConstructListReversed(h, init, nb) ==
    LET size == Len(init)
        new_items == ArrayPtrNew(size, nb)
        h1 == ArrayPtrNewHeap(h, size, nb)
        h2 == StdCopyList(h1, [k \in 1 .. size |-> init[size + 1 - k]], 0,
                          Get(new_items))
    IN  Ok([items_ |-> new_items, size_ |-> size, capacity_ |-> size], h2)

\* SimpleVector(std::initializer_list<Type> init)
ConstructList(h, init, nb) ==
    LET size == Len(init)
        new_items == ArrayPtrNew(size, nb)
        h1 == ArrayPtrNewHeap(h, size, nb)
        h2 == StdCopyList(h1, init, 0, Get(new_items))
    IN  Ok([items_ |-> new_items, size_ |-> size, capacity_ |-> size], h2)

\* SimpleVector(ReserveProxyObj obj), obj = Reserve(capacity_to_reserve)
ConstructReserve(h, capacity_to_reserve, nb) ==
    LET new_items == ArrayPtrNew(capacity_to_reserve, nb)
        h1 == ArrayPtrNewHeap(h, capacity_to_reserve, nb)
        h2 == StdFill(h1, Get(new_items),
                      Plus(Get(new_items), capacity_to_reserve), DefaultValue)
    IN  Ok([items_ |-> new_items, size_ |-> 0, capacity_ |-> capacity_to_reserve], h2)

\* SimpleVector(const SimpleVector &other) that takes the block of other
CopyConstructShares(h, other, nb) ==
    Both(Ok([items_ |-> other.items_, size_ |-> other.size_,
             capacity_ |-> other.capacity_], h),
         other)

\* SimpleVector(const SimpleVector &other)
CopyConstruct(h, other, nb) ==
    LET new_items == ArrayPtrNew(other.capacity_, nb)
        h1 == ArrayPtrNewHeap(h, other.capacity_, nb)
        h2 == StdCopy(h1, Get(other.items_), Plus(Get(other.items_), other.size_),
                      Get(new_items))
    IN  Both(Ok([items_ |-> new_items, size_ |-> other.size_,
                 capacity_ |-> other.capacity_], h2),
             other)

\* SimpleVector(SimpleVector &&other) that leaves other its block
MoveConstructLeavesBlock(h, other) ==
    Both(Ok([items_ |-> other.items_, size_ |-> other.size_,
             capacity_ |-> other.capacity_], h),
         [other EXCEPT !.size_ = 0, !.capacity_ = 0])

\* SimpleVector(SimpleVector &&other)
MoveConstruct(h, other) ==
    Both(Ok([items_ |-> other.items_, size_ |-> other.size_,
             capacity_ |-> other.capacity_], h),
         [items_ |-> ArrayPtrEmpty, size_ |-> 0, capacity_ |-> 0])

\* ~SimpleVector(): the heap afterwards
Destroy(h, v) == ArrayPtrDelete(h, v.items_)

---------------------------------------------------------------------------
(* SimpleVector<Type>: member functions *)

\* begin()
Begin(v) == Get(v.items_)

\* end()
End(v) == Plus(Get(v.items_), v.size_)

\* std::distance(cbegin(), pos)
Distance(v, pos) == pos.idx - Begin(v).idx

\* the logical contents of v: the elements at [0, size_)
Contents(h, v) == [k \in 1 .. v.size_ |-> Load(h, Plus(Begin(v), k - 1))]

\* operator[](index), read
Subscript(v, h, index) ==
    [Ok(v, h) EXCEPT !.out = Load(h, Plus(Get(v.items_), index))]

\* operator[](index) = x
SubscriptAssign(v, h, index, x) ==
    Ok(v, Store(h, Plus(Get(v.items_), index), x))

\* At(index) that checks the index against capacity_
AtChecksCapacity(v, h, index) ==
    IF index >= v.capacity_
    THEN Thrown(v, h, "out_of_range")
    ELSE [Ok(v, h) EXCEPT !.out = Load(h, Plus(Get(v.items_), index))]

\* At(index), read
At(v, h, index) ==
    IF index >= v.size_
    THEN Thrown(v, h, "out_of_range")
    ELSE [Ok(v, h) EXCEPT !.out = Load(h, Plus(Get(v.items_), index))]

\* Clear() that releases the block
ClearReleases(v, h) == Ok(EmptyVector, ArrayPtrDelete(h, v.items_))

\* Clear()
Clear(v, h) == Ok([v EXCEPT !.size_ = 0], h)

\* Reserve(new_capacity) that grows at least to the double
ReserveAtLeastDouble(v, h, new_capacity, nb, fail) ==
    IF new_capacity > v.capacity_
    THEN IF fail
         THEN Thrown(v, h, "bad_alloc")
         ELSE LET grown == IF new_capacity > 2 * v.capacity_
                           THEN new_capacity ELSE 2 * v.capacity_
                  new_items == ArrayPtrNew(grown, nb)
                  h1 == ArrayPtrNewHeap(h, grown, nb)
                  h2 == StdMove(h1, Get(v.items_), Plus(Get(v.items_), v.size_),
                                Get(new_items), FALSE)
                  h3 == ArrayPtrDelete(h2, v.items_)
              IN  Ok([v EXCEPT !.items_ = new_items, !.capacity_ = grown], h3)
    ELSE Ok(v, h)

\* Reserve(new_capacity); fail: the allocation throws.  The moved-from
\* elements are those of the block released on return.
Reserve(v, h, new_capacity, nb, fail) ==
    IF new_capacity > v.capacity_
    THEN IF fail
         THEN Thrown(v, h, "bad_alloc")
         ELSE LET new_items == ArrayPtrNew(new_capacity, nb)
                  h1 == ArrayPtrNewHeap(h, new_capacity, nb)
                  h2 == StdMove(h1, Begin(v), End(v), Get(new_items), FALSE)
                  \* items_.swap(new_items); new_items goes out of scope
                  h3 == ArrayPtrDelete(h2, v.items_)
              IN  Ok([v EXCEPT !.items_ = new_items, !.capacity_ = new_capacity], h3)
    ELSE Ok(v, h)

\* Resize(new_size) that sets size_ before it reserves
ResizeSetsSizeFirst(v, h, new_size, nb, fail) ==
    IF new_size <= v.size_
    THEN Ok([v EXCEPT !.size_ = new_size], h)
    ELSE LET grown == [v EXCEPT !.size_ = new_size]
             r == IF new_size > v.capacity_
                  THEN Reserve(grown, h, new_size, nb, fail)
                  ELSE Ok(grown, h)
         IN  IF r.err # "none"
             THEN r
             ELSE [r EXCEPT !.heap = UninitializedValueConstruct(
                                         @, End(v), Plus(Begin(r.vec), new_size))]

\* Resize(new_size)
Resize(v, h, new_size, nb, fail) ==
    IF new_size <= v.size_
    THEN Ok([v EXCEPT !.size_ = new_size], h)
    ELSE LET r == IF new_size > v.capacity_
                  THEN Reserve(v, h, new_size, nb, fail)
                  ELSE Ok(v, h)
         IN  IF r.err # "none"
             THEN r
             ELSE [r EXCEPT !.heap = UninitializedValueConstruct(
                                         @, End(r.vec), Plus(Begin(r.vec), new_size)),
                            !.vec.size_ = new_size]

\* growth by one slot instead of doubling
GrownByOne(v) == v.capacity_ + 1

\* the capacity PushBack and Insert reserve when size_ == capacity_
GrownCapacity(v) == IF v.capacity_ = 0 THEN 1 ELSE v.capacity_ * 2

\* PushBack(item)
PushBack(v, h, item, nb, fail) ==
    LET r == IF v.size_ = v.capacity_
             THEN Reserve(v, h, GrownCapacity(v), nb, fail)
             ELSE Ok(v, h)
    IN  IF r.err # "none"
        THEN r
        ELSE [r EXCEPT !.heap = Store(@, Plus(Get(r.vec.items_), r.vec.size_), item),
                       !.vec.size_ = @ + 1]

\* the value read through the reference ref: the element it refers to, or,
\* when the block it pointed into has been released, whatever is read there
ReadRef(h, ref, junk) == IF Valid(h, ref) THEN Load(h, ref) ELSE junk

\* PushBack(item), item a reference to the element (*this)[index]
PushBackElement(v, h, index, nb, fail, junk) ==
    LET item == Plus(Get(v.items_), index)
        r == IF v.size_ = v.capacity_
             THEN Reserve(v, h, GrownCapacity(v), nb, fail)
             ELSE Ok(v, h)
    IN  IF r.err # "none"
        THEN r
        ELSE [r EXCEPT !.heap = Store(@, Plus(Get(r.vec.items_), r.vec.size_),
                                      ReadRef(r.heap, item, junk)),
                       !.vec.size_ = @ + 1]

\* PopBack() that takes one from size_ whatever it is
PopBackUnchecked(v, h) == Ok([v EXCEPT !.size_ = @ - 1], h)

\* PopBack()
PopBack(v, h) == Ok([v EXCEPT !.size_ = @ - (IF v.size_ # 0 THEN 1 ELSE 0)], h)

\* Insert(pos, value)
Insert(v, h, pos, value, nb, fail, mv) ==
    LET index == Distance(v, pos)
        r == IF v.size_ = v.capacity_
             THEN Reserve(v, h, GrownCapacity(v), nb, fail)
             ELSE Ok(v, h)
    IN  IF r.err # "none"
        THEN r
        ELSE LET s == r.vec
                 h1 == StdMoveBackward(r.heap, Plus(Begin(s), index), End(s),
                                       Plus(End(s), 1), mv)
                 h2 == Store(h1, Plus(Get(s.items_), index), value)
                 after == [s EXCEPT !.size_ = @ + 1]
             IN  [r EXCEPT !.vec = after, !.heap = h2,
                           !.it = Plus(Begin(after), index)]

\* Insert(pos, value), value a reference to the element (*this)[from]
InsertElement(v, h, pos, from, nb, fail, mv, junk) ==
    LET index == Distance(v, pos)
        value == Plus(Get(v.items_), from)
        r == IF v.size_ = v.capacity_
             THEN Reserve(v, h, GrownCapacity(v), nb, fail)
             ELSE Ok(v, h)
    IN  IF r.err # "none"
        THEN r
        ELSE LET t == r.vec
                 h1 == StdMoveBackward(r.heap, Plus(Begin(t), index), End(t),
                                       Plus(End(t), 1), mv)
                 h2 == Store(h1, Plus(Get(t.items_), index), ReadRef(h1, value, junk))
                 after == [t EXCEPT !.size_ = @ + 1]
             IN  [r EXCEPT !.vec = after, !.heap = h2,
                           !.it = Plus(Begin(after), index)]

\* Erase(pos) that drops the last element instead of the one at pos
EraseDropsLast(v, h, pos, mv) ==
    LET index == Distance(v, pos)
        after == [v EXCEPT !.size_ = @ - 1]
    IN  [Ok(after, h) EXCEPT !.it = Plus(Get(after.items_), index)]

\* Erase(pos)
Erase(v, h, pos, mv) ==
    LET index == Distance(v, pos)
        h1 == StdMove(h, Plus(Begin(v), index + 1), End(v), Plus(Begin(v), index), mv)
        after == [v EXCEPT !.size_ = @ - 1]
    IN  [Ok(after, h1) EXCEPT !.it = Plus(Get(after.items_), index)]

\* operator=(const SimpleVector &rhs); self: this == &rhs
CopyAssign(v, h, rhs, self, nb, fail) ==
    IF ~self
    THEN IF fail
         THEN Both(Thrown(v, h, "bad_alloc"), rhs)
         ELSE LET new_items == ArrayPtrNew(rhs.capacity_, nb)
                  h1 == ArrayPtrNewHeap(h, rhs.capacity_, nb)
                  h2 == StdCopy(h1, Get(rhs.items_), Plus(Get(rhs.items_), rhs.size_),
                                Get(new_items))
                  \* items_.swap(new_items); new_items goes out of scope
                  h3 == ArrayPtrDelete(h2, v.items_)
              IN  Both(Ok([items_ |-> new_items, size_ |-> rhs.size_,
                           capacity_ |-> rhs.capacity_], h3),
                       rhs)
    ELSE Both(Ok(v, h), v)

\* operator=(SimpleVector &&other) without the test this != &other: on
\* itself, the counters are reset after they were copied
MoveAssignUnguarded(v, h, other, self) ==
    IF ~self
    THEN Both(Ok([items_ |-> other.items_, size_ |-> other.size_,
                  capacity_ |-> other.capacity_],
                 ArrayPtrDelete(h, v.items_)),
              [items_ |-> ArrayPtrEmpty, size_ |-> 0, capacity_ |-> 0])
    ELSE Both(Ok([v EXCEPT !.size_ = 0, !.capacity_ = 0], h),
              [v EXCEPT !.size_ = 0, !.capacity_ = 0])

\* operator=(SimpleVector &&other) that leaves the counters of other
MoveAssignLeavesSource(v, h, other, self) ==
    IF ~self
    THEN Both(Ok([items_ |-> other.items_, size_ |-> other.size_,
                  capacity_ |-> other.capacity_],
                 ArrayPtrDelete(h, v.items_)),
              [other EXCEPT !.items_ = ArrayPtrEmpty])
    ELSE Both(Ok(v, h), v)

\* operator=(SimpleVector &&other); self: this == &other
MoveAssign(v, h, other, self) ==
    IF ~self
    THEN Both(Ok([items_ |-> other.items_, size_ |-> other.size_,
                  capacity_ |-> other.capacity_],
                 ArrayPtrDelete(h, v.items_)),
              [items_ |-> ArrayPtrEmpty, size_ |-> 0, capacity_ |-> 0])
    ELSE Both(Ok(v, h), v)

\* swap(other) that leaves the capacities where they were
SwapKeepsCapacity(v, h, other) ==
    Both(Ok([other EXCEPT !.capacity_ = v.capacity_], h),
         [v EXCEPT !.capacity_ = other.capacity_])

\* swap(other)
Swap(v, h, other) == Both(Ok(other, h), v)

---------------------------------------------------------------------------
(* The comparison operators of SimpleVector<Type> *)

\* std::equal(first1, last1, first2, last2)
RECURSIVE StdEqual(_, _, _, _, _)
StdEqual(h, first1, last1, first2, last2) ==
    IF first1.idx >= last1.idx \/ first2.idx >= last2.idx
    THEN first1.idx >= last1.idx /\ first2.idx >= last2.idx
    ELSE /\ Load(h, first1) = Load(h, first2)
         /\ StdEqual(h, Plus(first1, 1), last1, Plus(first2, 1), last2)

\* std::lexicographical_compare(first1, last1, first2, last2)
RECURSIVE StdLexicographicalCompare(_, _, _, _, _)
StdLexicographicalCompare(h, first1, last1, first2, last2) ==
    IF first1.idx >= last1.idx \/ first2.idx >= last2.idx
    THEN first1.idx >= last1.idx /\ first2.idx < last2.idx
    ELSE IF Load(h, first1) < Load(h, first2) THEN TRUE
         ELSE IF Load(h, first2) < Load(h, first1) THEN FALSE
         ELSE StdLexicographicalCompare(h, Plus(first1, 1), last1,
                                        Plus(first2, 1), last2)

\* operator== that compares the whole blocks
OperatorEqWholeBlock(h, lhs, rhs) ==
    StdEqual(h, Begin(lhs), Plus(Begin(lhs), lhs.capacity_),
             Begin(rhs), Plus(Begin(rhs), rhs.capacity_))

\* operator==(lhs, rhs)
OperatorEq(h, lhs, rhs) == StdEqual(h, Begin(lhs), End(lhs), Begin(rhs), End(rhs))

\* operator!=(lhs, rhs)
OperatorNe(h, lhs, rhs) == ~OperatorEq(h, lhs, rhs)

\* operator< that looks at the elements both containers have, and no further
OperatorLtCommonPrefix(h, lhs, rhs) ==
    LET n == IF lhs.size_ < rhs.size_ THEN lhs.size_ ELSE rhs.size_
    IN  /\ StdLexicographicalCompare(h, Begin(lhs), Plus(Begin(lhs), n),
                                      Begin(rhs), Plus(Begin(rhs), n))

\* operator<(lhs, rhs)
OperatorLt(h, lhs, rhs) ==
    StdLexicographicalCompare(h, Begin(lhs), End(lhs), Begin(rhs), End(rhs))

\* operator<=(lhs, rhs)
OperatorLe(h, lhs, rhs) == ~OperatorLt(h, rhs, lhs)

\* operator>(lhs, rhs)
OperatorGt(h, lhs, rhs) == OperatorLt(h, rhs, lhs)

\* operator>=(lhs, rhs)
OperatorGe(h, lhs, rhs) == ~OperatorLt(h, lhs, rhs)

---------------------------------------------------------------------------
(* The state machine *)

\* the allocator has a block of n slots to give, L being the largest it has
CanAlloc(n, L) == n <= L

\* the blocks allocated in h
Live(h) == {b \in Blocks : h[b] # << >>}

\* the address the allocator returns next in h: the lowest one not in use
NewBlock(h) ==
    LET free == Blocks \ Live(h)
    IN  CHOOSE b \in free : \A c \in free : b <= c

\* a slot the call exposes, in [size_, new_size) of the block held before,
\* holds a value other than the value-initialized one
Stale(v, h, new_size) ==
    \E k \in v.size_ .. new_size - 1 :
        k < v.capacity_ /\ Load(h, Plus(Get(v.items_), k)) # DefaultValue

\* the record of a call op on container i (taking container j) with result
\* r: the arguments, whether its allocation failed, the results, the
\* counters of container i before the call, (res) what a comparison
\* returned and (list) the values a call was given one after the other
Call(op, i, j, arg, val, fail, r) ==
    [op |-> op, v |-> i, w |-> j, arg |-> arg, val |-> val, nomem |-> fail,
     err |-> r.err, it |-> r.it, out |-> r.out,
     osize |-> vec[i].size_, ocap |-> vec[i].capacity_,
     stale |-> op = "Resize" /\ Stale(vec[i], heap, arg), res |-> FALSE,
     list |-> << >>]

\* the record of the constructor op of container i with result r
Ctor(op, i, j, arg, val, r) ==
    [op |-> op, v |-> i, w |-> j, arg |-> arg, val |-> val, nomem |-> FALSE,
     err |-> r.err, it |-> r.it, out |-> r.out, osize |-> 0, ocap |-> 0,
     stale |-> FALSE, res |-> FALSE, list |-> << >>]

\* no Insert or Erase is in its shift
NoShift == [op |-> "none"]

\* the state after a call on container i with result r
Apply(i, r) ==
    /\ vec' = [vec EXCEPT ![i] = r.vec]
    /\ heap' = r.heap
    /\ UNCHANGED shift

\* the state after a call on container i that took container j, with result r
Apply2(i, j, r) ==
    /\ vec' = [k \in Vecs |-> IF k = i THEN r.vec
                              ELSE IF k = j THEN r.other ELSE vec[k]]
    /\ heap' = r.heap
    /\ UNCHANGED shift

\* the initializer lists of at most n elements
Lists(n) == UNION {[1 .. k -> Values] : k \in 0 .. n}

NoHeap == [b \in Blocks |-> << >>]

\* the results of the constructors of a first container, blocks up to L
Constructed(L) ==
    {[op |-> "SimpleVector()", arg |-> 0, val |-> NoValue, list |-> << >>,
      r |-> Ok(EmptyVector, NoHeap)]}
    \cup {[op |-> "SimpleVector(size)", arg |-> n, val |-> NoValue, list |-> << >>,
           r |-> ConstructSize(NoHeap, n, NewBlock(NoHeap))] : n \in 0 .. L}
    \cup {[op |-> "SimpleVector(size, value)", arg |-> nx[1], val |-> nx[2], list |-> << >>,
           r |-> ConstructFill(NoHeap, nx[1], nx[2], NewBlock(NoHeap))] :
              nx \in (0 .. L) \X Values}
    \cup {[op |-> "SimpleVector(init)", arg |-> Len(init), val |-> NoValue, list |-> init,
           r |-> ConstructList(NoHeap, init, NewBlock(NoHeap))] : init \in Lists(L)}
    \cup {[op |-> "SimpleVector(Reserve(capacity))", arg |-> n, val |-> NoValue,
           list |-> << >>,
           r |-> ConstructReserve(NoHeap, n, NewBlock(NoHeap))] : n \in 0 .. L}

\* container 1 built by one of its constructors, container 2 by SimpleVector()
InitWith(L) ==
    \E c \in Constructed(L) :
        /\ vec = [i \in Vecs |-> IF i = 1 THEN c.r.vec ELSE EmptyVector]
        /\ heap = c.r.heap
        /\ call = [op |-> c.op, v |-> 1, w |-> 1, arg |-> c.arg, val |-> c.val,
                   nomem |-> FALSE, err |-> c.r.err, it |-> c.r.it, out |-> c.r.out,
                   osize |-> 0, ocap |-> 0, stale |-> FALSE, res |-> FALSE,
                   list |-> c.list]
        /\ shift = NoShift

(* Construction of container i from container j, in place of the one there *)

DoCopyConstruct(i, j) ==
    /\ i # j
    /\ LET h == Destroy(heap, vec[i])
           r == CopyConstruct(h, vec[j], NewBlock(h))
       IN  Apply2(i, j, r)
           /\ call' = Ctor("SimpleVector(const SimpleVector &)", i, j, 0, NoValue, r)

DoMoveConstruct(i, j) ==
    /\ i # j
    /\ LET h == Destroy(heap, vec[i])
           r == MoveConstruct(h, vec[j])
       IN  Apply2(i, j, r)
           /\ call' = Ctor("SimpleVector(SimpleVector &&)", i, j, 0, NoValue, r)

(* Construction of container i, in place of the one there *)

DoConstruct(i) ==
    LET h == Destroy(heap, vec[i])
        r == Ok(EmptyVector, h)
    IN  Apply(i, r) /\ call' = Ctor("SimpleVector()", i, i, 0, NoValue, r)

DoConstructSize(i, size) ==
    LET h == Destroy(heap, vec[i])
        r == ConstructSize(h, size, NewBlock(h))
    IN  Apply(i, r) /\ call' = Ctor("SimpleVector(size)", i, i, size, NoValue, r)

DoConstructFill(i, size, value) ==
    LET h == Destroy(heap, vec[i])
        r == ConstructFill(h, size, value, NewBlock(h))
    IN  Apply(i, r)
        /\ call' = Ctor("SimpleVector(size, value)", i, i, size, value, r)

DoConstructList(i, init) ==
    LET h == Destroy(heap, vec[i])
        r == ConstructList(h, init, NewBlock(h))
    IN  Apply(i, r)
        /\ call' = [Ctor("SimpleVector(init)", i, i, Len(init), NoValue, r)
                       EXCEPT !.list = init]

DoConstructReserve(i, capacity) ==
    LET h == Destroy(heap, vec[i])
        r == ConstructReserve(h, capacity, NewBlock(h))
    IN  Apply(i, r)
        /\ call' = Ctor("SimpleVector(Reserve(capacity))", i, i, capacity, NoValue, r)

(* Calls on container i.  fail: the allocation of the call throws; mv: an   *)
(* element moved from is left value-initialized.  Both are offered where    *)
(* the call allocates, and leaves an element moved from.                    *)

\* index inside the block: operator[] makes no check
DoSubscript(i, index) ==
    /\ index < vec[i].capacity_
    /\ LET r == Subscript(vec[i], heap, index)
       IN  Apply(i, r)
           /\ call' = Call("operator[]", i, i, index, NoValue, FALSE, r)

DoSubscriptAssign(i, index, x) ==
    /\ index < vec[i].size_
    /\ LET r == SubscriptAssign(vec[i], heap, index, x)
       IN  Apply(i, r) /\ call' = Call("operator[]=", i, i, index, x, FALSE, r)

DoAt(i, index) ==
    LET r == At(vec[i], heap, index)
    IN  Apply(i, r) /\ call' = Call("At", i, i, index, NoValue, FALSE, r)

DoClear(i) ==
    LET r == Clear(vec[i], heap)
    IN  Apply(i, r) /\ call' = Call("Clear", i, i, 0, NoValue, FALSE, r)

DoResize(i, new_size, fail, L) ==
    /\ CanAlloc(new_size, L)
    /\ fail => new_size > vec[i].capacity_
    /\ LET r == Resize(vec[i], heap, new_size, NewBlock(heap), fail)
       IN  Apply(i, r)
           /\ call' = Call("Resize", i, i, new_size, NoValue, fail, r)

DoPushBack(i, item, fail, L) ==
    /\ vec[i].size_ < vec[i].capacity_ \/ CanAlloc(GrownCapacity(vec[i]), L)
    /\ fail => vec[i].size_ = vec[i].capacity_
    /\ LET r == PushBack(vec[i], heap, item, NewBlock(heap), fail)
       IN  Apply(i, r) /\ call' = Call("PushBack", i, i, 0, item, fail, r)

DoPopBack(i) ==
    LET r == PopBack(vec[i], heap)
    IN  Apply(i, r) /\ call' = Call("PopBack", i, i, 0, NoValue, FALSE, r)

\* pos = begin() + p, in [begin(), end()]
DoInsert(i, p, value, fail, mv, L) ==
    /\ p <= vec[i].size_
    /\ vec[i].size_ < vec[i].capacity_ \/ CanAlloc(GrownCapacity(vec[i]), L)
    /\ fail => vec[i].size_ = vec[i].capacity_
    /\ mv => p < vec[i].size_ /\ ~fail
    /\ LET r == Insert(vec[i], heap, Plus(Begin(vec[i]), p), value,
                       NewBlock(heap), fail, mv)
       IN  Apply(i, r) /\ call' = Call("Insert", i, i, p, value, fail, r)

\* PushBack((*this)[index]); junk: what a read of released memory gives
DoPushBackElement(i, index, junk, L) ==
    /\ index < vec[i].size_
    /\ vec[i].size_ < vec[i].capacity_ \/ CanAlloc(GrownCapacity(vec[i]), L)
    /\ junk # DefaultValue => vec[i].size_ = vec[i].capacity_
    /\ LET r == PushBackElement(vec[i], heap, index, NewBlock(heap), FALSE, junk)
       IN  Apply(i, r)
           /\ call' = Call("PushBack((*this)[index])", i, i, index,
                           Load(heap, Plus(Get(vec[i].items_), index)), FALSE, r)

\* Insert(begin() + p, (*this)[from]); junk: what a read of released memory
\* gives
DoInsertElement(i, p, from, mv, junk, L) ==
    /\ p <= vec[i].size_
    /\ from < vec[i].size_
    /\ vec[i].size_ < vec[i].capacity_ \/ CanAlloc(GrownCapacity(vec[i]), L)
    /\ mv => p < vec[i].size_
    /\ junk # DefaultValue => vec[i].size_ = vec[i].capacity_
    /\ LET r == InsertElement(vec[i], heap, Plus(Begin(vec[i]), p), from,
                              NewBlock(heap), FALSE, mv, junk)
       IN  Apply(i, r)
           /\ call' = [Call("Insert(pos, (*this)[index])", i, i, p,
                            Load(heap, Plus(Get(vec[i].items_), from)), FALSE, r)
                          EXCEPT !.list = << from >>]

\* pos = begin() + p, in [begin(), end())
DoErase(i, p, mv) ==
    /\ p < vec[i].size_
    /\ mv => p + 1 < vec[i].size_
    /\ LET r == Erase(vec[i], heap, Plus(Begin(vec[i]), p), mv)
       IN  Apply(i, r) /\ call' = Call("Erase", i, i, p, NoValue, FALSE, r)

DoReserve(i, new_capacity, fail, L) ==
    /\ CanAlloc(new_capacity, L)
    /\ fail => new_capacity > vec[i].capacity_
    /\ LET r == Reserve(vec[i], heap, new_capacity, NewBlock(heap), fail)
       IN  Apply(i, r)
           /\ call' = Call("Reserve", i, i, new_capacity, NoValue, fail, r)

(* Calls on container i that take container j *)

DoCopyAssign(i, j, fail) ==
    /\ fail => i # j /\ vec[j].capacity_ > 0
    /\ LET r == CopyAssign(vec[i], heap, vec[j], i = j, NewBlock(heap), fail)
       IN  Apply2(i, j, r)
           /\ call' = Call("operator=(const SimpleVector &)", i, j, 0,
                           NoValue, fail, r)

DoMoveAssign(i, j) ==
    LET r == MoveAssign(vec[i], heap, vec[j], i = j)
    IN  Apply2(i, j, r)
        /\ call' = Call("operator=(SimpleVector &&)", i, j, 0, NoValue, FALSE, r)

DoSwap(i, j) ==
    LET r == Swap(vec[i], heap, vec[j])
    IN  Apply2(i, j, r) /\ call' = Call("swap", i, j, 0, NoValue, FALSE, r)

(* Comparisons of container i with container j: nothing changes *)

\* the state after a comparison op of containers i and j that returned b
Compared(op, i, j, b) ==
    /\ UNCHANGED <<vec, heap, shift>>
    /\ call' = [Call(op, i, j, 0, NoValue, FALSE, Ok(vec[i], heap)) EXCEPT !.res = b]

DoOperatorEq(i, j) == Compared("operator==", i, j, OperatorEq(heap, vec[i], vec[j]))

DoOperatorNe(i, j) == Compared("operator!=", i, j, OperatorNe(heap, vec[i], vec[j]))

DoOperatorLt(i, j) == Compared("operator<", i, j, OperatorLt(heap, vec[i], vec[j]))

DoOperatorLe(i, j) == Compared("operator<=", i, j, OperatorLe(heap, vec[i], vec[j]))

DoOperatorGt(i, j) == Compared("operator>", i, j, OperatorGt(heap, vec[i], vec[j]))

DoOperatorGe(i, j) == Compared("operator>=", i, j, OperatorGe(heap, vec[i], vec[j]))

---------------------------------------------------------------------------
(* Insert and Erase, one slot of the shift at a time.  shift holds the      *)
(* range [first, last) still to move and the destination d, and for the    *)
(* properties the slots read so far (read), the slot read and the slot      *)
(* written last (src, dst), the elements to shift as they were (tail), the  *)
(* counters before the call and the result of the call as a whole (want).   *)

\* one turn of the loop of std::move_backward(first, last, d) that takes
\* the first element left
MoveBackwardFromFirst(h, s) ==
    LET n == s.last.idx - s.first.idx
    IN  [heap |-> StdMove(h, s.first, Plus(s.first, 1), Plus(s.d, -n), s.mv),
         shift |-> [s EXCEPT !.first = Plus(@, 1), !.read = @ \cup {s.first.idx},
                             !.src = s.first.idx, !.dst = s.d.idx - n]]

\* one turn of the loop of std::move_backward(first, last, d):
\* *(--d) = std::move(*(--last))
MoveBackwardOne(h, s) ==
    [heap |-> StdMoveBackward(h, Plus(s.last, -1), s.last, s.d, s.mv),
     shift |-> [s EXCEPT !.last = Plus(@, -1), !.d = Plus(@, -1),
                         !.read = @ \cup {s.last.idx - 1},
                         !.src = s.last.idx - 1, !.dst = s.d.idx - 1]]

\* one turn of the loop of std::move(first, last, d):
\* *d++ = std::move(*first++)
MoveOne(h, s) ==
    [heap |-> StdMove(h, s.first, Plus(s.first, 1), s.d, s.mv),
     shift |-> [s EXCEPT !.first = Plus(@, 1), !.d = Plus(@, 1),
                         !.read = @ \cup {s.first.idx},
                         !.src = s.first.idx, !.dst = s.d.idx]]

\* Insert(begin() + p, value) up to its shift: the index, and Reserve when full
InsertBegin(i, p, value, mv, L) ==
    /\ shift = NoShift
    /\ p <= vec[i].size_
    /\ vec[i].size_ < vec[i].capacity_ \/ CanAlloc(GrownCapacity(vec[i]), L)
    /\ mv => p < vec[i].size_
    /\ LET v == vec[i]
           index == Distance(v, Plus(Begin(v), p))
           r == IF v.size_ = v.capacity_
                THEN Reserve(v, heap, GrownCapacity(v), NewBlock(heap), FALSE)
                ELSE Ok(v, heap)
           after == r.vec
       IN  /\ vec' = [vec EXCEPT ![i] = after]
           /\ heap' = r.heap
           /\ shift' = [op |-> "move_backward", v |-> i, index |-> index,
                        value |-> value, mv |-> mv,
                        first |-> Plus(Begin(after), index), last |-> End(after),
                        d |-> Plus(End(after), 1),
                        read |-> {}, src |-> NoValue, dst |-> NoValue,
                        tail |-> SubSeq(Contents(heap, v), index + 1, v.size_),
                        osize |-> v.size_, ocap |-> v.capacity_,
                        want |-> Insert(v, heap, Plus(Begin(v), p), value,
                                        NewBlock(heap), FALSE, mv)]
           /\ UNCHANGED call

\* Insert: one slot of std::move_backward(begin() + index, end(), end() + 1)
InsertShift ==
    /\ shift.op = "move_backward"
    /\ shift.first.idx < shift.last.idx
    /\ LET t == MoveBackwardOne(heap, shift)
       IN  heap' = t.heap /\ shift' = t.shift
    /\ UNCHANGED <<vec, call>>

\* Insert after its shift: items_[index] = value, ++size_, return
InsertEnd ==
    /\ shift.op = "move_backward"
    /\ shift.first.idx >= shift.last.idx
    /\ LET i == shift.v
           v == vec[i]
           h == Store(heap, Plus(Get(v.items_), shift.index), shift.value)
           after == [v EXCEPT !.size_ = @ + 1]
           r == [Ok(after, h) EXCEPT !.it = Plus(Begin(after), shift.index)]
       IN  /\ vec' = [vec EXCEPT ![i] = after]
           /\ heap' = h
           /\ call' = [Call("Insert", i, i, shift.index, shift.value, FALSE, r)
                          EXCEPT !.osize = shift.osize, !.ocap = shift.ocap]
    /\ shift' = NoShift

\* Erase(begin() + p) up to its shift: the index
EraseBegin(i, p, mv) ==
    /\ shift = NoShift
    /\ p < vec[i].size_
    /\ mv => p + 1 < vec[i].size_
    /\ LET v == vec[i]
           index == Distance(v, Plus(Begin(v), p))
       IN  shift' = [op |-> "move", v |-> i, index |-> index,
                     value |-> NoValue, mv |-> mv,
                     first |-> Plus(Begin(v), index + 1), last |-> End(v),
                     d |-> Plus(Begin(v), index),
                     read |-> {}, src |-> NoValue, dst |-> NoValue,
                     tail |-> SubSeq(Contents(heap, v), index + 2, v.size_),
                     osize |-> v.size_, ocap |-> v.capacity_,
                     want |-> Erase(v, heap, Plus(Begin(v), p), mv)]
    /\ UNCHANGED <<vec, heap, call>>

\* Erase: one slot of std::move(begin() + index + 1, end(), begin() + index)
EraseShift ==
    /\ shift.op = "move"
    /\ shift.first.idx < shift.last.idx
    /\ LET t == MoveOne(heap, shift)
       IN  heap' = t.heap /\ shift' = t.shift
    /\ UNCHANGED <<vec, call>>

\* Erase after its shift: --size_, return
EraseEnd ==
    /\ shift.op = "move"
    /\ shift.first.idx >= shift.last.idx
    /\ LET i == shift.v
           v == vec[i]
           after == [v EXCEPT !.size_ = @ - 1]
           r == [Ok(after, heap) EXCEPT !.it = Plus(Get(after.items_), shift.index)]
       IN  /\ vec' = [vec EXCEPT ![i] = after]
           /\ call' = Call("Erase", i, i, shift.index, NoValue, FALSE, r)
    /\ shift' = NoShift
    /\ UNCHANGED heap

---------------------------------------------------------------------------
(* Specifications *)

\* One container: container 1 after any constructor, every call on it.
Init == InitWith(MaxCap)

Next ==
    \/ \E k \in 0 .. MaxCap : DoSubscript(1, k)
    \/ \E k \in 0 .. MaxCap, x \in Values : DoSubscriptAssign(1, k, x)
    \/ \E k \in 0 .. MaxCap + 1 : DoAt(1, k)
    \/ DoClear(1)
    \/ \E n \in 0 .. MaxCap, f \in BOOLEAN : DoResize(1, n, f, MaxCap)
    \/ \E x \in Values, f \in BOOLEAN : DoPushBack(1, x, f, MaxCap)
    \/ DoPopBack(1)
    \/ \E p \in 0 .. MaxCap, x \in Values, f \in BOOLEAN, mv \in BOOLEAN :
           DoInsert(1, p, x, f, mv, MaxCap)
    \/ \E p \in 0 .. MaxCap, mv \in BOOLEAN : DoErase(1, p, mv)
    \/ \E n \in 0 .. MaxCap, f \in BOOLEAN : DoReserve(1, n, f, MaxCap)

Spec == Init /\ [][Next]_vars

\* Two containers: the calls on either, and the calls that take both.
Init2 == InitWith(MaxCap2)

Next2 ==
    \/ \E i, j \in Vecs : DoCopyConstruct(i, j)
    \/ \E i, j \in Vecs : DoMoveConstruct(i, j)
    \/ \E i \in Vecs, k \in 0 .. MaxCap2, x \in Values : DoSubscriptAssign(i, k, x)
    \/ \E i \in Vecs : DoClear(i)
    \/ \E i \in Vecs, n \in 0 .. MaxCap2, f \in BOOLEAN : DoResize(i, n, f, MaxCap2)
    \/ \E i \in Vecs, x \in Values, f \in BOOLEAN : DoPushBack(i, x, f, MaxCap2)
    \/ \E i \in Vecs : DoPopBack(i)
    \/ \E i \in Vecs, p \in 0 .. MaxCap2, x \in Values, f \in BOOLEAN, mv \in BOOLEAN :
           DoInsert(i, p, x, f, mv, MaxCap2)
    \/ \E i \in Vecs, p \in 0 .. MaxCap2, mv \in BOOLEAN : DoErase(i, p, mv)
    \/ \E i \in Vecs, n \in 0 .. MaxCap2, f \in BOOLEAN : DoReserve(i, n, f, MaxCap2)
    \/ \E i, j \in Vecs, f \in BOOLEAN : DoCopyAssign(i, j, f)
    \/ \E i, j \in Vecs : DoMoveAssign(i, j)
    \/ \E i, j \in Vecs : DoSwap(i, j)

Spec2 == Init2 /\ [][Next2]_vars

\* One container, empty at first, grown by PushBack and Insert of one value
\* and by Reserve, in blocks of up to MaxGrow slots.
InitGrowth == InitWith(0)

NextGrowth ==
    \/ \E f \in BOOLEAN : DoPushBack(1, MaxVal, f, MaxGrow)
    \/ DoPopBack(1)
    \/ \E p \in 0 .. MaxGrow, f \in BOOLEAN, mv \in BOOLEAN :
           DoInsert(1, p, MaxVal, f, mv, MaxGrow)
    \/ \E n \in 0 .. MaxGrow, f \in BOOLEAN : DoReserve(1, n, f, MaxGrow)

SpecGrowth == InitGrowth /\ [][NextGrowth]_vars

\* Insert(begin() + p, value) and then Erase of the iterator it returned
DoInsertErase(i, p, value, mv, mv2, L) ==
    /\ p <= vec[i].size_
    /\ vec[i].size_ < vec[i].capacity_ \/ CanAlloc(GrownCapacity(vec[i]), L)
    /\ mv => p < vec[i].size_
    /\ mv2 => p < vec[i].size_
    /\ LET r1 == Insert(vec[i], heap, Plus(Begin(vec[i]), p), value,
                        NewBlock(heap), FALSE, mv)
           r2 == Erase(r1.vec, r1.heap, r1.it, mv2)
       IN  Apply(i, r2) /\ call' = Call("Insert;Erase", i, i, p, value, FALSE, r2)

\* One container, every call on it, and Insert with Erase after it.
NextRoundTrip ==
    \/ Next
    \/ \E p \in 0 .. MaxCap, x \in Values, mv \in BOOLEAN, mv2 \in BOOLEAN :
           DoInsertErase(1, p, x, mv, mv2, MaxCap)

SpecRoundTrip == Init /\ [][NextRoundTrip]_vars

\* One container, every call on it, and its construction anew by every
\* constructor.
NextConstruct ==
    \/ Next
    \/ DoConstruct(1)
    \/ \E n \in 0 .. MaxCap : DoConstructSize(1, n)
    \/ \E n \in 0 .. MaxCap, x \in Values : DoConstructFill(1, n, x)
    \/ \E init \in Lists(MaxCap) : DoConstructList(1, init)
    \/ \E n \in 0 .. MaxCap : DoConstructReserve(1, n)

SpecConstruct == Init /\ [][NextConstruct]_vars

\* PushBack(xs[1]), PushBack(xs[2]), ... one after the other, none failing
RECURSIVE PushBackAll(_, _, _)
PushBackAll(v, h, xs) ==
    IF xs = << >>
    THEN Ok(v, h)
    ELSE LET r == PushBack(v, h, Head(xs), NewBlock(h), FALSE)
         IN  PushBackAll(r.vec, r.heap, Tail(xs))

\* Clear() and then a PushBack of each of xs, at most capacity_ of them
DoClearPushBacks(i, xs) ==
    /\ Len(xs) <= vec[i].capacity_
    /\ LET r1 == Clear(vec[i], heap)
           r2 == PushBackAll(r1.vec, r1.heap, xs)
       IN  /\ Apply(i, r2)
           /\ call' = [Call("Clear;PushBack", i, i, Len(xs), NoValue, FALSE, r2)
                          EXCEPT !.list = xs]

\* One container: the calls that change its size and its capacity, and
\* Clear with PushBacks after it.
NextClear ==
    \/ DoClear(1)
    \/ \E n \in 0 .. MaxCap : DoResize(1, n, FALSE, MaxCap)
    \/ \E x \in Values : DoPushBack(1, x, FALSE, MaxCap)
    \/ DoPopBack(1)
    \/ \E n \in 0 .. MaxCap : DoReserve(1, n, FALSE, MaxCap)
    \/ \E xs \in Lists(MaxCap) : DoClearPushBacks(1, xs)

SpecClear == Init /\ [][NextClear]_vars

\* One container: every call on it, and PushBack and Insert of one of its
\* own elements.
NextAlias ==
    \/ Next
    \/ \E k \in 0 .. MaxCap, junk \in Values : DoPushBackElement(1, k, junk, MaxCap)
    \/ \E p \in 0 .. MaxCap, k \in 0 .. MaxCap, mv \in BOOLEAN, junk \in Values :
           DoInsertElement(1, p, k, mv, junk, MaxCap)

SpecAlias == Init /\ [][NextAlias]_vars

\* One container: every call on it, Insert and Erase also one slot of
\* their shift at a time, nothing else running in between.
NextShift ==
    \/ shift = NoShift /\ Next
    \/ \E p \in 0 .. MaxCap, x \in Values, mv \in BOOLEAN :
           InsertBegin(1, p, x, mv, MaxCap)
    \/ InsertShift
    \/ InsertEnd
    \/ \E p \in 0 .. MaxCap, mv \in BOOLEAN : EraseBegin(1, p, mv)
    \/ EraseShift
    \/ EraseEnd

SpecShift == Init /\ [][NextShift]_vars

\* Two containers: the calls that change the elements, the size or the
\* capacity of either, and the comparisons of one with the other.
NextCompare ==
    \/ \E i \in Vecs : DoClear(i)
    \/ \E i \in Vecs, n \in 0 .. MaxCap2 : DoResize(i, n, FALSE, MaxCap2)
    \/ \E i \in Vecs, x \in Values : DoPushBack(i, x, FALSE, MaxCap2)
    \/ \E i \in Vecs : DoPopBack(i)
    \/ \E i \in Vecs, p \in 0 .. MaxCap2 : DoErase(i, p, FALSE)
    \/ \E i \in Vecs, n \in 0 .. MaxCap2 : DoReserve(i, n, FALSE, MaxCap2)
    \/ \E i, j \in Vecs : DoOperatorEq(i, j)
    \/ \E i, j \in Vecs : DoOperatorNe(i, j)
    \/ \E i, j \in Vecs : DoOperatorLt(i, j)
    \/ \E i, j \in Vecs : DoOperatorLe(i, j)
    \/ \E i, j \in Vecs : DoOperatorGt(i, j)
    \/ \E i, j \in Vecs : DoOperatorGe(i, j)

SpecCompare == Init2 /\ [][NextCompare]_vars

---------------------------------------------------------------------------
(* Properties *)

Max(a, b) == IF a > b THEN a ELSE b

\* the container the last call was made on
Target == vec[call.v]

\* the last call returned normally
Returned(op) == call.op = op /\ call.err = "none"

\* C1: in every state reachable from any constructor by any sequence of
\* calls (PushBack, PopBack, Insert, Erase, Resize, Reserve, Clear, swap,
\* copy and move construction and assignment) every container has
\* 0 <= size_ <= capacity_.
SizeWithinCapacity ==
    \A i \in Vecs : 0 <= vec[i].size_ /\ vec[i].size_ <= vec[i].capacity_

\* a swap of a full container with one that has room
SizeWithinCapacityWitness ==
    /\ Returned("swap") /\ call.v # call.w
    /\ vec[call.v].size_ = vec[call.v].capacity_ /\ vec[call.v].size_ > 0
    /\ vec[call.w].size_ < vec[call.w].capacity_

\* C2: PushBack and Insert grow by doubling, exactly: a call made with
\* size_ < capacity_ leaves capacity_ as it was, a call made with
\* size_ == capacity_ leaves it max(1, 2 * capacity_), and either adds one
\* to size_ (so N PushBacks on an empty container give size N).
DoublingRule ==
    (Returned("PushBack") \/ Returned("Insert")) =>
        /\ Target.size_ = call.osize + 1
        /\ call.osize < call.ocap => Target.capacity_ = call.ocap
        /\ call.osize = call.ocap => Target.capacity_ = Max(1, 2 * call.ocap)

\* the sixth PushBack after Reserve(5): capacity 5 becomes 10
DoublingRuleWitness ==
    /\ Returned("PushBack")
    /\ call.osize = 5 /\ call.ocap = 5
    /\ Target.size_ = 6 /\ Target.capacity_ = 10

\* the sequence e with x put before its element p (0-based)
InsertAt(e, p, x) == SubSeq(e, 1, p) \o << x >> \o SubSeq(e, p + 1, Len(e))

\* the sequence e without its element p (0-based)
RemoveAt(e, p) == SubSeq(e, 1, p) \o SubSeq(e, p + 2, Len(e))

\* the step is a call of op that returns normally
Returns(op) == call'.op = op /\ call'.err = "none"

\* C3: Insert(begin() + p, v) on contents e, 0 <= p <= size, leaves the
\* contents e[0..p), v, e[p..size), adds one to size_ and returns the
\* iterator to slot p of the block the container then holds, whether or not
\* the call reallocates.
InsertPlacesValue ==
    [][Returns("Insert") =>
         LET i == call'.v
             p == call'.arg
         IN  /\ Contents(heap', vec'[i])
                  = InsertAt(Contents(heap, vec[i]), p, call'.val)
             /\ vec'[i].size_ = vec[i].size_ + 1
             /\ call'.it = [ptr |-> vec'[i].items_, idx |-> p]
             /\ Valid(heap', call'.it)]_vars

\* an Insert before the last element of a full container: it reallocates
\* and shifts
InsertPlacesValueWitness ==
    /\ Returned("Insert")
    /\ call.osize = call.ocap /\ call.osize > 0 /\ call.arg < call.osize
    /\ Target.capacity_ > call.ocap
    /\ call.it.ptr = Target.items_

\* C4: Erase(begin() + p) on contents e, 0 <= p < size, leaves the contents
\* e[0..p), e[p+1..size), takes one from size_, leaves capacity_ as it was
\* and returns the iterator to slot p, which is end() when the last element
\* was erased.
EraseRemovesElement ==
    [][Returns("Erase") =>
         LET i == call'.v
             p == call'.arg
         IN  /\ Contents(heap', vec'[i]) = RemoveAt(Contents(heap, vec[i]), p)
             /\ vec'[i].size_ = vec[i].size_ - 1
             /\ vec'[i].capacity_ = vec[i].capacity_
             /\ call'.it = [ptr |-> vec'[i].items_, idx |-> p]
             /\ p = vec[i].size_ - 1 => call'.it = End(vec'[i])]_vars

\* an Erase of the first of three elements: two are shifted
EraseRemovesElementWitness ==
    /\ Returned("Erase")
    /\ call.arg = 0 /\ call.osize = 3
    /\ Target.size_ = 2 /\ call.it = Begin(Target)

\* C5: Insert(begin() + p, v), p in [0, size], and then Erase of the
\* iterator Insert returned leave the contents and size_ as they were before
\* the Insert (the capacity may have grown).
InsertEraseRoundTrip ==
    [][Returns("Insert;Erase") =>
         LET i == call'.v
         IN  /\ Contents(heap', vec'[i]) = Contents(heap, vec[i])
             /\ vec'[i].size_ = vec[i].size_
             /\ vec'[i].capacity_ >= vec[i].capacity_]_vars

\* a round trip before the last element of a full container: the capacity
\* has grown
InsertEraseRoundTripWitness ==
    /\ Returned("Insert;Erase")
    /\ call.osize = call.ocap /\ call.osize > 0 /\ call.arg < call.osize
    /\ Target.size_ = call.osize /\ Target.capacity_ > call.ocap

\* C6: At(i) throws out_of_range for every i >= size_, also for i in
\* [size_, capacity_), and leaves the container as it was; for i < size_ it
\* returns the element operator[](i) returns.
AtChecksSize ==
    [][call'.op = "At" =>
         LET i == call'.v
             index == call'.arg
         IN  /\ index >= vec[i].size_ =>
                    /\ call'.err = "out_of_range" /\ call'.out = NoValue
                    /\ vec' = vec /\ heap' = heap
             /\ index < vec[i].size_ =>
                    /\ call'.err = "none"
                    /\ call'.out = Subscript(vec[i], heap, index).out
                    /\ call'.out = Contents(heap, vec[i])[index + 1]]_vars

\* At(i) thrown for the index of an allocated slot past the last element
AtChecksSizeWitness ==
    /\ call.op = "At" /\ call.err = "out_of_range"
    /\ call.arg >= Target.size_ /\ call.arg < Target.capacity_
    /\ Load(heap, Plus(Begin(Target), call.arg)) # DefaultValue

\* C7: a call of Reserve, Resize, PushBack, Insert or copy assignment whose
\* allocation fails throws, and leaves every container and every block as
\* it was.
FailedAllocationChangesNothing ==
    [][call'.nomem =>
         /\ call'.err = "bad_alloc"
         /\ call'.op \in {"Reserve", "Resize", "PushBack", "Insert",
                          "operator=(const SimpleVector &)"}
         /\ vec' = vec /\ heap' = heap]_vars

\* a copy assignment to a container with elements, thrown out of
FailedAllocationChangesNothingWitness ==
    /\ call.op = "operator=(const SimpleVector &)" /\ call.nomem
    /\ call.err = "bad_alloc"
    /\ Target.size_ > 0 /\ vec[call.w].size_ > 0

\* C8: Resize(n) ends with size_ == n, leaves the elements at
\* [0, min(old size, n)) as they were and makes every element at
\* [old size, n) the value-initialized one, whatever the slots held.
ResizeValueInitializes ==
    [][Returns("Resize") =>
         LET i == call'.v
             n == call'.arg
             old == Contents(heap, vec[i])
             new == Contents(heap', vec'[i])
         IN  /\ vec'[i].size_ = n
             /\ Len(new) = n
             /\ \A k \in 1 .. n :
                    new[k] = IF k <= Len(old) THEN old[k] ELSE DefaultValue]_vars

\* a Resize up, inside the capacity, over a slot that held another value
ResizeValueInitializesWitness ==
    /\ Returned("Resize") /\ call.stale
    /\ call.arg > call.osize /\ call.arg <= call.ocap
    /\ Target.size_ = call.arg

\* C9: Reserve(n) leaves size_ and the elements as they were; with
\* n > capacity_ the capacity afterwards is n, with n <= capacity_ nothing
\* changes at all.  Resize(n) with n > capacity_ leaves the capacity n too.
ReserveIsExact ==
    [][/\ Returns("Reserve") =>
            LET i == call'.v
                n == call'.arg
            IN  /\ vec'[i].size_ = vec[i].size_
                /\ Contents(heap', vec'[i]) = Contents(heap, vec[i])
                /\ n > vec[i].capacity_ => vec'[i].capacity_ = n
                /\ n <= vec[i].capacity_ => vec' = vec /\ heap' = heap
       /\ Returns("Resize") /\ call'.arg > vec[call'.v].capacity_ =>
            vec'[call'.v].capacity_ = call'.arg]_vars

\* a Reserve of a container with elements for more than it has, and not
\* for the double
ReserveIsExactWitness ==
    /\ Returned("Reserve")
    /\ call.osize > 0 /\ call.arg > call.ocap /\ call.arg # 2 * call.ocap
    /\ Target.capacity_ = call.arg

\* the step is a copy construction or a copy assignment from another container
Copies ==
    /\ call'.op \in {"SimpleVector(const SimpleVector &)",
                     "operator=(const SimpleVector &)"}
    /\ call'.err = "none" /\ call'.v # call'.w

\* the slots of the block container v holds
Block(h, v) == IF v.items_ = Null THEN << >> ELSE h[v.items_]

\* C10: a copy (construction or assignment) has the size, the capacity and
\* the elements of its source, in a block of its own, and leaves the source
\* as it was; and no call on a container changes the members or the block
\* of another one.
DeepCopyIsolation ==
    [][/\ Copies =>
            LET i == call'.v
                j == call'.w
            IN  /\ vec'[i].size_ = vec[j].size_
                /\ vec'[i].capacity_ = vec[j].capacity_
                /\ Contents(heap', vec'[i]) = Contents(heap, vec[j])
                /\ vec'[j] = vec[j]
                /\ Block(heap', vec'[j]) = Block(heap, vec[j])
                /\ vec'[i].items_ # Null => vec'[i].items_ # vec'[j].items_
       /\ \A k \in Vecs :
            k \notin {call'.v, call'.w} =>
                vec'[k] = vec[k] /\ Block(heap', vec'[k]) = Block(heap, vec[k])]_vars

\* a copy assignment from a container with elements and room
DeepCopyIsolationWitness ==
    /\ Returned("operator=(const SimpleVector &)") /\ call.v # call.w
    /\ Target.size_ > 0 /\ Target.size_ < Target.capacity_
    /\ Target.items_ # vec[call.w].items_
    /\ Contents(heap, Target) = Contents(heap, vec[call.w])

\* the step is a move construction or a move assignment from another container
Moves ==
    /\ call'.op \in {"SimpleVector(SimpleVector &&)", "operator=(SimpleVector &&)"}
    /\ call'.err = "none" /\ call'.v # call'.w

\* PushBack, Reserve and Resize do on v in h what they do on SimpleVector()
AsDefaultConstructed(v, h) ==
    LET nb == NewBlock(h)
    IN  /\ \A x \in Values :
               LET r == PushBack(v, h, x, nb, FALSE)
               IN  /\ r = PushBack(EmptyVector, h, x, nb, FALSE)
                   /\ r.vec.size_ = 1 /\ r.vec.capacity_ = 1
                   /\ Contents(r.heap, r.vec) = << x >>
        /\ \A n \in 0 .. MaxCap2 :
               LET r == Reserve(v, h, n, nb, FALSE)
               IN  /\ r = Reserve(EmptyVector, h, n, nb, FALSE)
                   /\ r.vec.size_ = 0 /\ r.vec.capacity_ = n
        /\ \A n \in 0 .. MaxCap2 :
               LET r == Resize(v, h, n, nb, FALSE)
               IN  /\ r = Resize(EmptyVector, h, n, nb, FALSE)
                   /\ r.vec.size_ = n /\ r.vec.capacity_ = n
                   /\ Contents(r.heap, r.vec) = [k \in 1 .. n |-> DefaultValue]

\* C11: a move (construction or assignment) from another container leaves
\* the source with size_ == 0 and capacity_ == 0 and gives the destination
\* the size, the capacity and the elements the source had; PushBack, Reserve
\* and Resize then do on the source what they do on a default-constructed
\* container.
MoveTransfers ==
    [][Moves =>
         LET i == call'.v
             j == call'.w
         IN  /\ vec'[j].size_ = 0 /\ vec'[j].capacity_ = 0
             /\ vec'[i].size_ = vec[j].size_
             /\ vec'[i].capacity_ = vec[j].capacity_
             /\ Contents(heap', vec'[i]) = Contents(heap, vec[j])
             /\ AsDefaultConstructed(vec'[j], heap')]_vars

\* a move assignment from a container with elements and room to a
\* container that held a block
MoveTransfersWitness ==
    /\ Returned("operator=(SimpleVector &&)") /\ call.v # call.w
    /\ call.ocap > 0
    /\ Target.size_ > 0 /\ Target.size_ < Target.capacity_
    /\ vec[call.w].size_ = 0 /\ vec[call.w].capacity_ = 0

\* the containers the last call compared
Lhs == vec[call.v]
Rhs == vec[call.w]

\* C12: operator== returns true exactly when the two containers have the
\* same size and equal elements at every index in [0, size), whatever
\* their capacities and whatever the slots at [size, capacity) hold;
\* operator!= returns the negation.
EqualityOfContents ==
    LET same == /\ Lhs.size_ = Rhs.size_
                /\ \A k \in 0 .. Lhs.size_ - 1 :
                       Load(heap, Plus(Begin(Lhs), k)) = Load(heap, Plus(Begin(Rhs), k))
    IN  /\ call.op = "operator==" => call.res = same
        /\ call.op = "operator!=" => call.res = ~same
        /\ call.op = "operator!=" => call.res = ~OperatorEq(heap, Lhs, Rhs)

\* operator== has returned true for two containers of different capacities
\* with elements, one of them with another value left past its last element
EqualityOfContentsWitness ==
    /\ call.op = "operator==" /\ call.res /\ call.v # call.w
    /\ Lhs.size_ > 0 /\ Lhs.capacity_ # Rhs.capacity_
    /\ Lhs.size_ < Lhs.capacity_ /\ Load(heap, End(Lhs)) # DefaultValue

\* dictionary order: a and b agree on their first k elements, and there a
\* ends and b goes on, or a has the lesser element
SeqLess(a, b) ==
    \E k \in 0 .. Len(a) :
        /\ k <= Len(b)
        /\ \A m \in 1 .. k : a[m] = b[m]
        /\ \/ k = Len(a) /\ k < Len(b)
           \/ k < Len(a) /\ k < Len(b) /\ a[k + 1] < b[k + 1]

\* C13: operator< is the dictionary order of the elements at [0, size) (a
\* proper prefix is less than the longer sequence, the empty container less
\* than every other one); operator>, operator<= and operator>= agree with
\* it: of a < b, a == b, a > b exactly one holds, a <= b iff not (b < a),
\* and a >= b iff not (a < b).
DictionaryOrder ==
    LET a == Contents(heap, Lhs)
        b == Contents(heap, Rhs)
    IN  /\ call.op = "operator<" => call.res = SeqLess(a, b)
        /\ call.op = "operator>" => call.res = SeqLess(b, a)
        /\ call.op = "operator<=" => call.res = (SeqLess(a, b) \/ a = b)
        /\ call.op = "operator>=" => call.res = (SeqLess(b, a) \/ a = b)
        /\ a = << >> /\ b # << >> => OperatorLt(heap, Lhs, Rhs)
        /\ \A i, j \in Vecs :
               LET lt == OperatorLt(heap, vec[i], vec[j])
                   eq == OperatorEq(heap, vec[i], vec[j])
                   gt == OperatorGt(heap, vec[i], vec[j])
               IN  /\ lt \/ eq \/ gt
                   /\ ~(lt /\ eq) /\ ~(lt /\ gt) /\ ~(eq /\ gt)
                   /\ OperatorLe(heap, vec[i], vec[j]) = ~OperatorLt(heap, vec[j], vec[i])
                   /\ OperatorGe(heap, vec[i], vec[j]) = ~OperatorLt(heap, vec[i], vec[j])

\* operator< has returned true for a container whose elements are the first
\* elements of the other one, and which holds a greater value past its end
DictionaryOrderWitness ==
    /\ call.op = "operator<" /\ call.res
    /\ Lhs.size_ > 0 /\ Lhs.size_ < Rhs.size_ /\ Lhs.size_ < Lhs.capacity_
    /\ \A k \in 0 .. Lhs.size_ - 1 :
           Load(heap, Plus(Begin(Lhs), k)) = Load(heap, Plus(Begin(Rhs), k))
    /\ Load(heap, End(Lhs)) > Load(heap, Plus(Begin(Rhs), Lhs.size_))

\* C14: PopBack takes exactly one from size_ when size_ > 0 and changes
\* nothing when size_ == 0 (size_ stays 0, never below); either way it
\* leaves capacity_, the block and so the elements that remain as they were.
PopBackDecrements ==
    [][call'.op = "PopBack" =>
         LET i == call'.v
         IN  /\ call'.err = "none"
             /\ vec[i].size_ > 0 => vec'[i].size_ = vec[i].size_ - 1
             /\ vec[i].size_ = 0 => vec' = vec
             /\ vec'[i].size_ >= 0
             /\ vec'[i].capacity_ = vec[i].capacity_
             /\ vec'[i].items_ = vec[i].items_
             /\ heap' = heap
             /\ Contents(heap', vec'[i])
                  = SubSeq(Contents(heap, vec[i]), 1, vec'[i].size_)]_vars

\* a PopBack of a container with a block and no element
PopBackDecrementsWitness ==
    /\ Returned("PopBack")
    /\ call.osize = 0 /\ call.ocap > 0
    /\ Target.size_ = 0 /\ Target.capacity_ = call.ocap

\* C15: Clear sets size_ to 0 and leaves capacity_ and the block as they
\* were; the PushBacks after it, up to capacity_ of them, reallocate
\* nothing (the capacity and the block held stay the same) and leave the
\* container with exactly the values pushed, in the order pushed.
ClearKeepsBuffer ==
    [][/\ Returns("Clear") =>
            /\ vec' = [vec EXCEPT ![call'.v].size_ = 0]
            /\ heap' = heap
       /\ Returns("Clear;PushBack") =>
            LET i == call'.v
            IN  /\ vec'[i].capacity_ = vec[i].capacity_
                /\ vec'[i].items_ = vec[i].items_
                /\ Live(heap') = Live(heap)
                /\ vec'[i].size_ = Len(call'.list)
                /\ Contents(heap', vec'[i]) = call'.list]_vars

\* a Clear of a full container and as many PushBacks as it has slots, not
\* all of one value
ClearKeepsBufferWitness ==
    /\ Returned("Clear;PushBack")
    /\ call.osize = call.ocap /\ call.ocap > 1
    /\ Len(call.list) = call.ocap
    /\ Target.size_ = Target.capacity_ /\ Target.capacity_ = call.ocap
    /\ call.list[1] # call.list[2]

\* n copies of x
Repeated(n, x) == [k \in 1 .. n |-> x]

\* C16: after SimpleVector() size_ and capacity_ are 0; after
\* SimpleVector(n) both are n and the elements are n value-initialized
\* ones; after SimpleVector(n, value) both are n and the elements are n
\* copies of value; after SimpleVector(init) both are the length of the
\* list and the elements are those of the list, in its order; after
\* SimpleVector(Reserve(h)) size_ is 0 and capacity_ is h.
ConstructorsEstablish ==
    LET size == Target.size_
        capacity == Target.capacity_
        elements == Contents(heap, Target)
    IN  /\ call.op = "SimpleVector()" => size = 0 /\ capacity = 0
        /\ call.op = "SimpleVector(size)" =>
               /\ size = call.arg /\ capacity = call.arg
               /\ elements = Repeated(call.arg, DefaultValue)
        /\ call.op = "SimpleVector(size, value)" =>
               /\ size = call.arg /\ capacity = call.arg
               /\ elements = Repeated(call.arg, call.val)
        /\ call.op = "SimpleVector(init)" =>
               /\ size = Len(call.list) /\ capacity = Len(call.list)
               /\ elements = call.list
        /\ call.op = "SimpleVector(Reserve(capacity))" =>
               /\ size = 0 /\ capacity = call.arg
               /\ Len(Block(heap, Target)) = call.arg

\* a container built from a list of values that are not all the same
ConstructorsEstablishWitness ==
    /\ call.op = "SimpleVector(init)" /\ Len(call.list) > 1
    /\ call.list[1] # call.list[Len(call.list)]
    /\ Target.size_ = Len(call.list)
    /\ Target.items_ # Null

\* the slots a .. b - 1 of the block container v holds
Slots(h, v, a, b) == [k \in 1 .. (b - a) |-> Load(h, Plus(Get(v.items_), a + k - 1))]

\* the container an Insert or Erase in its shift was called on
Shifted == vec[shift.v]

\* in the shift of Insert: the slots still to move and the slots moved hold
\* the tail as it was, and slot size_ is a slot of the block
InsertShiftSafe ==
    LET p == shift.index
        size == Shifted.size_
        m == shift.last.idx
    IN  /\ shift.first.idx = p /\ m >= p /\ m <= size /\ shift.d.idx = m + 1
        /\ size < Shifted.capacity_
        /\ Valid(heap, Plus(Get(Shifted.items_), size))
        /\ shift.read = m .. size - 1
        /\ Slots(heap, Shifted, p, m) \o Slots(heap, Shifted, m + 1, size + 1)
             = shift.tail

\* in the shift of Erase: the slots moved and the slots still to move hold
\* the tail as it was
EraseShiftSafe ==
    LET p == shift.index
        size == Shifted.size_
        m == shift.first.idx
    IN  /\ shift.last.idx = size /\ m >= p + 1 /\ m <= size /\ shift.d.idx = m - 1
        /\ shift.read = p + 1 .. m - 1
        /\ Slots(heap, Shifted, p, m - 1) \o Slots(heap, Shifted, m, size)
             = shift.tail

\* the step moves one slot: it reads slot src and writes its value to slot
\* dst, and changes no other slot than these two
MovesSlot(src, dst) ==
    LET b == Shifted.items_
    IN  /\ shift'.src = src /\ shift'.dst = dst
        /\ heap'[b][dst + 1] = heap[b][src + 1]
        /\ \A c \in Blocks : \A k \in DOMAIN heap[c] :
               c # b \/ k \notin {src + 1, dst + 1} => heap'[c][k] = heap[c][k]

\* C17: the shift of Insert(begin() + p, value) moves slot i to slot i + 1
\* for i from size - 1 down to p, the shift of Erase(begin() + p) moves
\* slot i + 1 to slot i for i from p up to size - 2, one slot a step; the
\* slot a step writes is one read before, or the slot outside the tail
\* (slot size for Insert, slot p for Erase); at every step the slots moved
\* and the slots still to move hold the tail as it was; slot size, which
\* Insert writes first, is inside the block; and the steps together do
\* what the call as a whole does.
ShiftReadsBeforeItWrites ==
    [][/\ shift'.op = "move_backward" => InsertShiftSafe'
       /\ shift'.op = "move" => EraseShiftSafe'
       /\ shift.op = "move_backward" /\ shift'.op = "move_backward" =>
            /\ MovesSlot(shift.last.idx - 1, shift.last.idx)
            /\ shift.read = {} => shift'.src = Shifted.size_ - 1
            /\ shift'.dst \in shift.read \cup {Shifted.size_}
            /\ shift'.dst < Shifted.capacity_
       /\ shift.op = "move" /\ shift'.op = "move" =>
            /\ MovesSlot(shift.first.idx, shift.first.idx - 1)
            /\ shift.read = {} => shift'.dst = shift.index
            /\ shift'.dst \in shift.read \cup {shift.index}
       /\ shift.op # "none" /\ shift'.op = "none" =>
            /\ shift.read = {k \in 0 .. shift.osize - 1 :
                                 IF shift.op = "move" THEN k > shift.index
                                                      ELSE k >= shift.index}
            /\ vec'[shift.v] = shift.want.vec
            /\ heap' = shift.want.heap
            /\ call'.it = shift.want.it]_vars

\* an Insert in its shift, one slot moved and another still to move, the
\* two holding different values
ShiftReadsBeforeItWritesWitness ==
    /\ shift.op = "move_backward"
    /\ Cardinality(shift.read) = 1
    /\ shift.first.idx < shift.last.idx
    /\ shift.tail[Len(shift.tail)] # shift.tail[Len(shift.tail) - 1]

\* the blocks the containers hold
Owned == {vec[i].items_ : i \in Vecs} \ {Null}

\* C18: whatever constructions, copies, moves, swaps, assignments,
\* reallocations and destructions have happened, no block is held by two
\* containers; the blocks allocated are exactly the blocks held, each of
\* capacity_ slots (a block replaced is released, a block held is not);
\* and a container of capacity 0 left by SimpleVector() or by a move holds
\* no block.
ExclusiveOwnership ==
    /\ \A i, j \in Vecs :
           i # j /\ vec[i].items_ # Null => vec[i].items_ # vec[j].items_
    /\ Live(heap) = Owned
    /\ \A i \in Vecs : Len(Block(heap, vec[i])) = vec[i].capacity_
    /\ call.op = "SimpleVector()" => Target.items_ = Null
    /\ call.op \in {"SimpleVector(SimpleVector &&)", "operator=(SimpleVector &&)"}
         /\ call.v # call.w =>
            vec[call.w].capacity_ = 0 /\ vec[call.w].items_ = Null

\* a move assignment to a container that held a block: that block is
\* released, the block of the source has changed hands
ExclusiveOwnershipWitness ==
    /\ Returned("operator=(SimpleVector &&)") /\ call.v # call.w
    /\ call.ocap > 0
    /\ Target.items_ # Null /\ Live(heap) = {Target.items_}

\* C19: PushBack(x) and Insert(pos, x) store the value x had when the call
\* was made, also when x is an element of the container itself, whether
\* size_ < capacity_ or size_ == capacity_ and the block is replaced before
\* x is read.
StoresValueAtCall ==
    [][/\ Returns("PushBack((*this)[index])") =>
            LET i == call'.v
                e == Contents(heap, vec[i])
            IN  Contents(heap', vec'[i]) = Append(e, e[call'.arg + 1])
       /\ Returns("Insert(pos, (*this)[index])") =>
            LET i == call'.v
                e == Contents(heap, vec[i])
            IN  Contents(heap', vec'[i])
                  = InsertAt(e, call'.arg, e[call'.list[1] + 1])]_vars

\* C20: a copy assignment or a move assignment of a container to itself
\* changes nothing: size_, capacity_, the block held and its slots stay as
\* they were (the move assignment does not leave the container empty).
SelfAssignmentChangesNothing ==
    [][/\ call'.op \in {"operator=(const SimpleVector &)", "operator=(SimpleVector &&)"}
       /\ call'.v = call'.w
       => /\ call'.err = "none"
          /\ vec' = vec
          /\ heap' = heap]_vars

\* a move assignment of a container with elements and room to itself
SelfAssignmentChangesNothingWitness ==
    /\ Returned("operator=(SimpleVector &&)") /\ call.v = call.w
    /\ call.osize > 0 /\ call.osize < call.ocap
    /\ Target.size_ = call.osize /\ Target.capacity_ = call.ocap

=============================================================================
